---- MODULE Spec2Model ----
(***************************************************************************)
(* A model of rag_cars.py: a script that loads car records, reconciles     *)
(* them against a persistent ChromaDB collection (embedding the enriched   *)
(* text of every record the collection does not report), and then answers  *)
(* questions in an interactive loop by retrieval-augmented generation.      *)
(*                                                                         *)
(* Texts are TLA+ strings.  A line typed by the user and a completion      *)
(* returned by the generation service are sequences of one-character       *)
(* strings, because str.lower() and str.strip() act on characters; Str     *)
(* turns such a sequence into a string.                                     *)
(*                                                                         *)
(* The embedding service, the generation service and the collection are    *)
(* external: every call to a service has one of the outcomes of            *)
(* ServiceOutcomes, the existing-id lookup succeeds or raises, and the     *)
(* collection ranks the stored documents in an order of its own choosing.  *)
(***************************************************************************)
EXTENDS Integers, Sequences, FiniteSets, TLC

VARIABLES
    car_data,       \* the records loaded from cars.json (fixed for all runs)
    store,          \* the persistent collection: entries in insertion order
    pc,             \* position of the running script
    existing_ids,   \* global existing_ids
    new_items,      \* global new_items
    i,              \* position of the indexing loop in new_items (1-based)
    enriched_text,  \* global enriched_text of the item being indexed
    emb,            \* global emb of the item being indexed
    question,       \* global question: the line read, as characters
    q_emb,          \* rag_query's local q_emb
    top_docs,       \* rag_query's local top_docs
    top_ids,        \* rag_query's local top_ids
    prompt,         \* rag_query's local prompt
    answer,         \* global answer
    exit_by,        \* how the process ended: "" while it runs
    log,            \* history: the calls and prints since the run started or
                    \* since the last line was read, oldest first
    store_at_start, \* history: the collection as the current run found it
    reconciled      \* history: <<the stored ids an earlier run left>>, for the
                    \* last earlier run that finished its indexing pass, or NotYet

vars == <<car_data, store, pc, existing_ids, new_items, i, enriched_text, emb,
          question, q_emb, top_docs, top_ids, prompt, answer, exit_by, log,
          store_at_start, reconciled>>

(***************************************************************************)
(* Bounds and input sets                                                   *)
(***************************************************************************)
MaxRecords == 3

N_RESULTS == 3

\* the value of a string variable that was not assigned yet
None == "<none>"
\* the same for a line of input, for an embedding, and for reconciled
NoLine == <<"<none>">>
NoEmbedding == <<>>
NotYet == <<>>

RecA == [id |-> "c1", text |-> "Model A sedan", make |-> "Acme", seat |-> 5]
RecB == [id |-> "c2", text |-> "Model B", make |-> "Bolt", type |-> "SUV",
         seat |-> 12, fuel_type |-> "diesel"]
\* a second record with the id of RecA, and no optional attribute
RecC == [id |-> "c1", text |-> "Model A coupe"]

Pool == {RecA, RecB, RecC}

RECURSIVE SeqsUpTo(_, _)
SeqsUpTo(S, n) ==
    IF n = 0 THEN {<<>>}
    ELSE LET shorter == SeqsUpTo(S, n - 1)
         IN  shorter \cup {Append(s, x) : s \in shorter, x \in S}

Datasets == SeqsUpTo(Pool, MaxRecords)

Emb(text) == <<"embedding of", text>>

Entry(id, document, text) ==
    [id |-> id, document |-> document, embedding |-> Emb(text)]

InitialStores ==
    { <<>>,
      << Entry("c1", "Model A (2019)", "Model A (2019)") >>,
      << Entry("c0", "Model Z", "Model Z"), Entry("c9", "Model Y", "Model Y") >> }

Questions ==
    { <<"e", "x", "i", "t">>, <<"E", "X", "I", "T">>, <<"Q", "u", "i", "t">>,
      <<"q", "u", "i", "t">>,
      <<>>, <<" ", "e", "x", "i", "t", " ">>, <<"S", "e", "a", "t", "s", "?">> }

\* one reply, padded with a space, a form feed, a vertical tab (0x0b), a
\* unit separator (0x1f) and a newline
Responses ==
    { <<" ", "\f", "", "5", " ", "s", "e", "a", "t", "s", ".", "", "\f", "\n">> }

ServiceOutcomes == {"ok", "connection_error", "http_error", "missing_field"}

LookupOutcomes == {"ok", "error"}

(***************************************************************************)
(* Strings                                                                 *)
(***************************************************************************)
RECURSIVE Str(_)
Str(chars) ==
    IF chars = <<>> THEN "" ELSE Head(chars) \o Str(Tail(chars))

UpperCase == <<"A", "B", "C", "D", "E", "F", "G", "H", "I", "J", "K", "L", "M",
               "N", "O", "P", "Q", "R", "S", "T", "U", "V", "W", "X", "Y", "Z">>
LowerCase == <<"a", "b", "c", "d", "e", "f", "g", "h", "i", "j", "k", "l", "m",
               "n", "o", "p", "q", "r", "s", "t", "u", "v", "w", "x", "y", "z">>

LowerChar(c) ==
    IF \E k \in 1..Len(UpperCase) : UpperCase[k] = c
    THEN LowerCase[CHOOSE k \in 1..Len(UpperCase) : UpperCase[k] = c]
    ELSE c

\* str.lower()
Lower(chars) == [k \in 1..Len(chars) |-> LowerChar(chars[k])]

\* the characters str.strip() removes, among those a string here can hold:
\* the space, \t, \n, \r, \f, and (written as the characters themselves)
\* the vertical tab 0x0b and the separators 0x1c-0x1f; Python also removes
\* 0x85 and the Unicode spaces
Whitespace == {" ", "\t", "\n", "\r", "\f", "", "", "", "", ""}

RECURSIVE LStrip(_)
LStrip(chars) ==
    IF chars # <<>> /\ Head(chars) \in Whitespace THEN LStrip(Tail(chars))
    ELSE chars

RECURSIVE RStrip(_)
RStrip(chars) ==
    IF chars # <<>> /\ chars[Len(chars)] \in Whitespace
    THEN RStrip(SubSeq(chars, 1, Len(chars) - 1))
    ELSE chars

\* str.strip()
Strip(chars) == RStrip(LStrip(chars))

Digit(d) == <<"0", "1", "2", "3", "4", "5", "6", "7", "8", "9">>[d + 1]

RECURSIVE NatToStr(_)
NatToStr(n) ==
    IF n < 10 THEN Digit(n) ELSE NatToStr(n \div 10) \o Digit(n % 10)

\* str(int), as an f-string formats an integer
IntToStr(n) == IF n < 0 THEN "-" \o NatToStr(-n) ELSE NatToStr(n)

RECURSIVE JoinLines_Reversed(_)
\* the join taking the documents last first
JoinLines_Reversed(docs) ==
    IF docs = <<>> THEN ""
    ELSE IF Len(docs) = 1 THEN docs[1]
    ELSE JoinLines_Reversed(Tail(docs)) \o "\n" \o docs[1]

RECURSIVE JoinLines(_)
\* "\n".join(docs)
JoinLines(docs) ==
    IF docs = <<>> THEN ""
    ELSE IF Len(docs) = 1 THEN docs[1]
    ELSE docs[1] \o "\n" \o JoinLines(Tail(docs))

(***************************************************************************)
(* The collection (ChromaDB, behind PersistentClient)                      *)
(***************************************************************************)
StoredIds(st) == {st[k].id : k \in 1..Len(st)}

Ids(items) == {items[k].id : k \in 1..Len(items)}

\* the lookup asking for no id: `collection.get(ids=[])['ids']`
CollectionGet_Nothing(st, ids) == {}

\* collection.get(ids=...)['ids']: the requested ids the collection holds
CollectionGet(st, ids) == {id \in ids : id \in StoredIds(st)}

\* the add as an upsert: the entry of an id already held is overwritten
CollectionAdd_Upsert(st, req) ==
    IF req.id \in StoredIds(st)
    THEN [k \in 1..Len(st) |-> IF st[k].id = req.id THEN req ELSE st[k]]
    ELSE Append(st, req)

\* collection.add of one document: an id the collection already holds is
\* left as it is (the add is ignored), any other is appended
CollectionAdd(st, req) ==
    IF req.id \in StoredIds(st) THEN st ELSE Append(st, req)

Min(a, b) == IF a < b THEN a ELSE b

Injective(f) == \A a, b \in DOMAIN f : f[a] = f[b] => a = b

\* collection.query(query_embeddings=[e], n_results=n): the positions of the
\* n nearest entries, nearest first.  The distance is the collection's own:
\* every ranking of min(n, count) distinct entries is possible.
CollectionQuery(st, n) ==
    {r \in [1..Min(n, Len(st)) -> 1..Len(st)] : Injective(r)}

(***************************************************************************)
(* get_embedding                                                           *)
(***************************************************************************)
\* the two lines printed at lines 47-48
EmbedConnectionDiag ==
    "Connection error to Ollama. Please ensure Ollama is running." \o "\n"
        \o "   You can check by opening Terminal/Command Prompt and typing: ollama run llama3.2"

EmbedErrorDiag(e) == "Error getting embedding: " \o e

\* the urls of the two service calls
EMBED_URL == "http://localhost:11434/api/embeddings"
GENERATE_URL == "http://localhost:11434/api/generate"

\* the reply without the expected field: the empty object, as Python shows it
MalformedReply == "{}"

\* the message of the ValueError of line 43, which ends with the reply
MissingEmbeddingError(data) ==
    "Embedding API error: 'embedding' key missing in response: " \o data

\* str() of the HTTPError raise_for_status() raises for a status 500
HttpError(url) == "500 Server Error: Internal Server Error for url: " \o url

\* get_embedding that reports a connection error and returns (no exit())
GetEmbedding_NoExit(text, outcome) ==
    CASE outcome = "ok" ->
           [exit |-> FALSE, value |-> Emb(text)]
      [] outcome = "connection_error" ->
           [exit |-> FALSE, value |-> NoEmbedding]
      [] outcome = "missing_field" ->
           [exit |-> TRUE, diag |-> EmbedErrorDiag(MissingEmbeddingError(MalformedReply))]
      [] outcome = "http_error" ->
           [exit |-> TRUE, diag |-> EmbedErrorDiag(HttpError(EMBED_URL))]

\* get_embedding(text) when the service call ends in `outcome`: the value
\* returned, or the diagnostic printed before exit()
GetEmbedding(text, outcome) ==
    CASE outcome = "ok" ->
           [exit |-> FALSE, value |-> Emb(text)]
      [] outcome = "connection_error" ->
           [exit |-> TRUE, diag |-> EmbedConnectionDiag]
      [] outcome = "missing_field" ->
           [exit |-> TRUE, diag |-> EmbedErrorDiag(MissingEmbeddingError(MalformedReply))]
      [] outcome = "http_error" ->
           [exit |-> TRUE, diag |-> EmbedErrorDiag(HttpError(EMBED_URL))]

(***************************************************************************)
(* Indexing block                                                          *)
(***************************************************************************)
\* the lookup whose error is taken to mean that every id exists
ExistingIds_ErrorAsAll(st, data, outcome) ==
    IF outcome = "ok" THEN CollectionGet(st, Ids(data)) ELSE Ids(data)

\* existing_ids: the lookup's result, or the empty set when it raises
ExistingIds(st, data, outcome) ==
    IF outcome = "ok" THEN CollectionGet(st, Ids(data)) ELSE {}

RECURSIVE NewItems_Inverted(_, _)
\* the filter with its test inverted: `if item['id'] in existing_ids`
NewItems_Inverted(data, existing) ==
    IF data = <<>> THEN <<>>
    ELSE IF Head(data).id \in existing
         THEN <<Head(data)>> \o NewItems_Inverted(Tail(data), existing)
         ELSE NewItems_Inverted(Tail(data), existing)

\* the filter left out: `new_items = car_data`
NewItems_Unfiltered(data, existing) == data

RECURSIVE NewItems(_, _)
\* [item for item in car_data if item['id'] not in existing_ids]
NewItems(data, existing) ==
    IF data = <<>> THEN <<>>
    ELSE IF Head(data).id \notin existing
         THEN <<Head(data)>> \o NewItems(Tail(data), existing)
         ELSE NewItems(Tail(data), existing)

Has(item, key) == key \in DOMAIN item

\* the enrichment with the seat clause appended before the type clause
EnrichedText_SeatFirst(item) ==
    LET t0 == item.text
        t1 == IF Has(item, "make")
              THEN t0 \o " This car is made by " \o item.make \o "."
              ELSE t0
        t2 == IF Has(item, "seat")
              THEN t1 \o " It has " \o IntToStr(item.seat) \o " seats."
              ELSE t1
        t3 == IF Has(item, "type")
              THEN t2 \o " It is a type of " \o item.type \o "."
              ELSE t2
        t4 == IF Has(item, "fuel_type")
              THEN t3 \o " It uses " \o item.fuel_type \o " fuel."
              ELSE t3
    IN  t4

EnrichedText(item) ==
    LET t0 == item.text
        t1 == IF Has(item, "make")
              THEN t0 \o " This car is made by " \o item.make \o "."
              ELSE t0
        t2 == IF Has(item, "type")
              THEN t1 \o " It is a type of " \o item.type \o "."
              ELSE t1
        t3 == IF Has(item, "seat")
              THEN t2 \o " It has " \o IntToStr(item.seat) \o " seats."
              ELSE t2
        t4 == IF Has(item, "fuel_type")
              THEN t3 \o " It uses " \o item.fuel_type \o " fuel."
              ELSE t3
    IN  t4

\* the add storing the enriched text: `documents=[enriched_text]`
AddRequest_Enriched(item, enriched, e) ==
    [id |-> item.id, document |-> enriched, embedding |-> e]

\* the arguments of collection.add for one item
AddRequest(item, enriched, e) ==
    [id |-> item.id, document |-> item.text, embedding |-> e]

(***************************************************************************)
(* rag_query and the interactive loop                                      *)
(***************************************************************************)
\* the f-string prompt
BuildPrompt(context, q) ==
    "Use the following context to answer the question.\n\nContext:\n"
        \o context \o "\n\nQuestion: " \o q \o "\nAnswer:"

GenConnectionDiag ==
    "Connection error to Ollama when generating answer. Please ensure Ollama is running."

GenErrorDiag(e) == "Error generating answer: " \o e

MissingResponseError == "'response'"

\* rag_query with a single handler: every failure gets the connection text
GenerateAnswer_OneDiag(outcome, response) ==
    CASE outcome = "ok" -> Str(Strip(response))
      [] outcome = "connection_error" -> GenConnectionDiag
      [] outcome = "missing_field" -> GenConnectionDiag
      [] outcome = "http_error" -> GenConnectionDiag

\* what rag_query returns when the generation call ends in `outcome`
\* (`response` is the completion of a well-formed reply)
GenerateAnswer(outcome, response) ==
    CASE outcome = "ok" -> Str(Strip(response))
      [] outcome = "connection_error" -> GenConnectionDiag
      [] outcome = "missing_field" -> GenErrorDiag(MissingResponseError)
      [] outcome = "http_error" -> GenErrorDiag(HttpError(GENERATE_URL))

\* the test without lower(): `question in ["exit", "quit"]`
IsSentinel_CaseSensitive(q) == q \in {<<"e", "x", "i", "t">>, <<"q", "u", "i", "t">>}

\* the test on the stripped line: `question.strip().lower() in [...]`
IsSentinel_Stripped(q) ==
    Lower(Strip(q)) \in {<<"e", "x", "i", "t">>, <<"q", "u", "i", "t">>}

\* question.lower() in ["exit", "quit"]
IsSentinel(q) == Lower(q) \in {<<"e", "x", "i", "t">>, <<"q", "u", "i", "t">>}

(***************************************************************************)
(* History events                                                          *)
(***************************************************************************)
Printed(text) == [ev |-> "print", text |-> text]

Banner == Printed("Car RAG is ready. Ask a question (type 'exit' to quit):")

TraceLine(k, id, doc) ==
    Printed("Source " \o IntToStr(k) \o " (ID: " \o id \o "): \"" \o doc \o "\"")

\* the trace listing the sources last first
TraceOf_Reversed(ids, docs) ==
    <<Printed("Retrieving relevant information to answer your question...")>>
    \o [k \in 1..Len(docs) |->
           TraceLine(k, ids[Len(docs) + 1 - k], docs[Len(docs) + 1 - k])]
    \o <<Printed("These seem to be the most relevant pieces of information to answer your question.")>>

TraceOf(ids, docs) ==
    <<Printed("Retrieving relevant information to answer your question...")>>
    \o [k \in 1..Len(docs) |-> TraceLine(k, ids[k], docs[k])]
    \o <<Printed("These seem to be the most relevant pieces of information to answer your question.")>>

(***************************************************************************)
(* The script                                                              *)
(***************************************************************************)
Init ==
    /\ car_data \in Datasets
    /\ store \in InitialStores
    /\ pc = "lookup"
    /\ existing_ids = {}
    /\ new_items = <<>>
    /\ i = 0
    /\ enriched_text = None
    /\ emb = NoEmbedding
    /\ question = NoLine
    /\ q_emb = NoEmbedding
    /\ top_docs = <<>>
    /\ top_ids = <<>>
    /\ prompt = None
    /\ answer = None
    /\ exit_by = ""
    /\ log = <<>>
    /\ store_at_start = store
    /\ reconciled = NotYet

\* lines 57-67 and 98-99: the existing-id lookup, the filter, and the branch
Lookup ==
    /\ pc = "lookup"
    /\ \E outcome \in LookupOutcomes :
         LET ex == ExistingIds(store, car_data, outcome)
             ni == NewItems(car_data, ex)
             got == [ev |-> "get", ids |-> [k \in 1..Len(car_data) |-> car_data[k].id],
                     outcome |-> outcome]
         IN  /\ existing_ids' = ex
             /\ new_items' = ni
             /\ IF ni # <<>>
                THEN /\ i' = 1
                     /\ pc' = "embed"
                     /\ log' = log \o <<got, Printed("Adding " \o IntToStr(Len(ni))
                                                  \o " new documents to ChromaDB...")>>
                ELSE /\ i' = i
                     /\ pc' = "input"
                     /\ log' = log \o <<got, Printed("All documents already in ChromaDB."),
                                        Banner>>
    /\ UNCHANGED <<car_data, store, enriched_text, emb, question, q_emb, top_docs,
                   top_ids, prompt, answer, exit_by, store_at_start, reconciled>>

\* lines 69-86: enrich the current item and embed the enriched text
IndexEmbed ==
    /\ pc = "embed"
    /\ \E outcome \in ServiceOutcomes :
         LET text == EnrichedText(new_items[i])
             r == GetEmbedding(text, outcome)
             call == [ev |-> "embed", prompt |-> text, outcome |-> outcome]
         IN  /\ enriched_text' = text
             /\ IF r.exit
                THEN /\ log' = log \o <<call, Printed(r.diag)>>
                     /\ pc' = "exited"
                     /\ exit_by' = "exit()"
                     /\ emb' = emb
                ELSE /\ log' = Append(log, call)
                     /\ pc' = "add"
                     /\ exit_by' = exit_by
                     /\ emb' = r.value
    /\ UNCHANGED <<car_data, store, existing_ids, new_items, i, question, q_emb,
                   top_docs, top_ids, prompt, answer, store_at_start, reconciled>>

\* the loop left after its first add
IndexAdd_StopsEarly ==
    /\ pc = "add"
    /\ LET req == AddRequest(new_items[i], enriched_text, emb)
           call == [ev |-> "add", id |-> req.id, document |-> req.document,
                    embedding |-> req.embedding]
       IN  /\ store' = CollectionAdd(store, req)
           /\ i' = i
           /\ pc' = "input"
           /\ log' = log \o <<call, Printed("New documents added successfully."),
                              Banner>>
    /\ UNCHANGED <<car_data, existing_ids, new_items, enriched_text, emb, question,
                   q_emb, top_docs, top_ids, prompt, answer, exit_by, store_at_start,
                   reconciled>>

\* lines 92-97: add the current item, then go on with the next one or finish
IndexAdd ==
    /\ pc = "add"
    /\ LET req == AddRequest(new_items[i], enriched_text, emb)
           call == [ev |-> "add", id |-> req.id, document |-> req.document,
                    embedding |-> req.embedding]
       IN  /\ store' = CollectionAdd(store, req)
           /\ IF i < Len(new_items)
              THEN /\ i' = i + 1
                   /\ pc' = "embed"
                   /\ log' = Append(log, call)
              ELSE /\ i' = i
                   /\ pc' = "input"
                   /\ log' = log \o <<call, Printed("New documents added successfully."),
                                      Banner>>
    /\ UNCHANGED <<car_data, existing_ids, new_items, enriched_text, emb, question,
                   q_emb, top_docs, top_ids, prompt, answer, exit_by, store_at_start,
                   reconciled>>

\* lines 162-168: read a line; leave on a sentinel, else call rag_query.
\* At the end of the input input() raises EOFError, which nothing catches:
\* the process ends there, `question` not assigned and nothing printed.
ReadInput ==
    /\ pc = "input"
    /\ \/ \E q \in Questions :
            /\ question' = q
            /\ IF IsSentinel(q)
               THEN /\ log' = <<[ev |-> "input", line |-> q], Printed("Goodbye!")>>
                    /\ pc' = "exited"
                    /\ exit_by' = "break"
               ELSE /\ log' = <<[ev |-> "input", line |-> q],
                                [ev |-> "rag_query", line |-> q]>>
                    /\ pc' = "q_embed"
                    /\ exit_by' = exit_by
       \/ /\ pc' = "exited"
          /\ exit_by' = "uncaught EOFError"
          /\ UNCHANGED <<question, log>>
    /\ UNCHANGED <<car_data, store, existing_ids, new_items, i, enriched_text, emb,
                   q_emb, top_docs, top_ids, prompt, answer, store_at_start, reconciled>>

\* the question's embedding call tried again after a failure
QueryEmbed_Retry ==
    /\ pc = "q_embed"
    /\ \E outcome \in ServiceOutcomes :
         LET r == GetEmbedding(Str(question), outcome)
             call == [ev |-> "embed", prompt |-> Str(question), outcome |-> outcome]
         IN  IF r.exit
             THEN /\ log' = log \o <<call, Printed(r.diag)>>
                  /\ pc' = IF Len(log) < 4 THEN "q_embed" ELSE "exited"
                  /\ exit_by' = IF Len(log) < 4 THEN exit_by ELSE "exit()"
                  /\ q_emb' = q_emb
             ELSE /\ log' = Append(log, call)
                  /\ pc' = "q_query"
                  /\ exit_by' = exit_by
                  /\ q_emb' = r.value
    /\ UNCHANGED <<car_data, store, existing_ids, new_items, i, enriched_text, emb,
                   question, top_docs, top_ids, prompt, answer, store_at_start,
                   reconciled>>

\* line 106: embed the question
QueryEmbed ==
    /\ pc = "q_embed"
    /\ \E outcome \in ServiceOutcomes :
         LET r == GetEmbedding(Str(question), outcome)
             call == [ev |-> "embed", prompt |-> Str(question), outcome |-> outcome]
         IN  IF r.exit
             THEN /\ log' = log \o <<call, Printed(r.diag)>>
                  /\ pc' = "exited"
                  /\ exit_by' = "exit()"
                  /\ q_emb' = q_emb
             ELSE /\ log' = Append(log, call)
                  /\ pc' = "q_query"
                  /\ exit_by' = exit_by
                  /\ q_emb' = r.value
    /\ UNCHANGED <<car_data, store, existing_ids, new_items, i, enriched_text, emb,
                   question, top_docs, top_ids, prompt, answer, store_at_start,
                   reconciled>>

\* the retrieval that also stores the question as a document
QueryRetrieve_StoresQuestion ==
    /\ pc = "q_query"
    /\ \E r \in CollectionQuery(store, N_RESULTS) :
         LET docs == [k \in 1..Len(r) |-> store[r[k]].document]
             ids == [k \in 1..Len(r) |-> store[r[k]].id]
             call == [ev |-> "query", n_results |-> N_RESULTS, embedding |-> q_emb,
                      ids |-> ids, documents |-> docs]
         IN  /\ top_docs' = docs
             /\ top_ids' = ids
             /\ prompt' = BuildPrompt(JoinLines(docs), Str(question))
             /\ log' = Append(log, call) \o TraceOf(ids, docs)
    /\ store' = CollectionAdd(store, [id |-> "question", document |-> Str(question),
                                      embedding |-> q_emb])
    /\ pc' = "q_generate"
    /\ UNCHANGED <<car_data, existing_ids, new_items, i, enriched_text, emb,
                   question, q_emb, answer, exit_by, store_at_start, reconciled>>

\* lines 111-138: query the collection, show what was retrieved, build the prompt
QueryRetrieve ==
    /\ pc = "q_query"
    /\ \E r \in CollectionQuery(store, N_RESULTS) :
         LET docs == [k \in 1..Len(r) |-> store[r[k]].document]
             ids == [k \in 1..Len(r) |-> store[r[k]].id]
             call == [ev |-> "query", n_results |-> N_RESULTS, embedding |-> q_emb,
                      ids |-> ids, documents |-> docs]
         IN  /\ top_docs' = docs
             /\ top_ids' = ids
             /\ prompt' = BuildPrompt(JoinLines(docs), Str(question))
             /\ log' = Append(log, call) \o TraceOf(ids, docs)
    /\ pc' = "q_generate"
    /\ UNCHANGED <<car_data, store, existing_ids, new_items, i, enriched_text, emb,
                   question, q_emb, answer, exit_by, store_at_start, reconciled>>

\* lines 141-155 and 168: the generation call; rag_query returns into answer
QueryGenerate ==
    /\ pc = "q_generate"
    /\ \E outcome \in ServiceOutcomes, response \in Responses :
         /\ answer' = GenerateAnswer(outcome, response)
         /\ log' = Append(log, [ev |-> "generate", prompt |-> prompt, stream |-> FALSE,
                                outcome |-> outcome])
    /\ q_emb' = NoEmbedding
    /\ top_docs' = <<>>
    /\ top_ids' = <<>>
    /\ prompt' = None
    /\ pc' = "q_print"
    /\ UNCHANGED <<car_data, store, existing_ids, new_items, i, enriched_text, emb,
                   question, exit_by, store_at_start, reconciled>>

\* line 170: print the answer and go back to the prompt
ShowAnswer ==
    /\ pc = "q_print"
    /\ log' = Append(log, [ev |-> "answer", text |-> answer])
    /\ pc' = "input"
    /\ UNCHANGED <<car_data, store, existing_ids, new_items, i, enriched_text, emb,
                   question, q_emb, top_docs, top_ids, prompt, answer, exit_by,
                   store_at_start, reconciled>>

\* the indexing pass of the current run has finished
IndexingFinished ==
    pc = "input" \/ question # NoLine \/ exit_by = "uncaught EOFError"

\* the script is started again: lines 20-28 find the same file and the
\* collection as the last run left it
Restart ==
    /\ pc = "exited"
    /\ pc' = "lookup"
    /\ existing_ids' = {}
    /\ new_items' = <<>>
    /\ i' = 0
    /\ enriched_text' = None
    /\ emb' = NoEmbedding
    /\ question' = NoLine
    /\ q_emb' = NoEmbedding
    /\ top_docs' = <<>>
    /\ top_ids' = <<>>
    /\ prompt' = None
    /\ answer' = None
    /\ exit_by' = ""
    /\ log' = <<>>
    /\ store_at_start' = store
    /\ reconciled' = IF IndexingFinished THEN <<StoredIds(store)>> ELSE reconciled
    /\ UNCHANGED <<car_data, store>>

Next ==
    \/ Lookup
    \/ IndexEmbed
    \/ IndexAdd
    \/ ReadInput
    \/ QueryEmbed
    \/ QueryRetrieve
    \/ QueryGenerate
    \/ ShowAnswer
    \/ Restart

Spec == Init /\ [][Next]_vars

(***************************************************************************)
(* The enrichment on its own: one record with any subset of the optional   *)
(* attributes, and the step of lines 71-83 applied to it                   *)
(***************************************************************************)
OptionalKeys == {"make", "type", "seat", "fuel_type"}

EnrichTexts == {"Model A sedan", "B"}

EnrichSeats == {2, 5, 12}

EnrichRecord(text, keys, seat) ==
    [k \in {"id", "text"} \cup keys |->
        CASE k = "id" -> "c1"
          [] k = "text" -> text
          [] k = "make" -> "Acme"
          [] k = "type" -> "SUV"
          [] k = "seat" -> seat
          [] k = "fuel_type" -> "diesel"]

EnrichInputs ==
    {EnrichRecord(t, keys, seat) :
        t \in EnrichTexts, keys \in SUBSET OptionalKeys, seat \in EnrichSeats}

InitEnrich ==
    /\ car_data \in {<<r>> : r \in EnrichInputs}
    /\ store = <<>>
    /\ pc = "enrich"
    /\ existing_ids = {}
    /\ new_items = car_data
    /\ i = 1
    /\ enriched_text = None
    /\ emb = NoEmbedding
    /\ question = NoLine
    /\ q_emb = NoEmbedding
    /\ top_docs = <<>>
    /\ top_ids = <<>>
    /\ prompt = None
    /\ answer = None
    /\ exit_by = ""
    /\ log = <<>>
    /\ store_at_start = <<>>
    /\ reconciled = NotYet

\* lines 71-83 for the item at hand
Enrich ==
    /\ pc = "enrich"
    /\ enriched_text' = EnrichedText(new_items[i])
    /\ pc' = "enriched"
    /\ UNCHANGED <<car_data, store, existing_ids, new_items, i, emb, question, q_emb,
                   top_docs, top_ids, prompt, answer, exit_by, log, store_at_start,
                   reconciled>>

NextEnrich == Enrich

SpecEnrich == InitEnrich /\ [][NextEnrich]_vars

(***************************************************************************)
(* Properties                                                              *)
(***************************************************************************)
Last(s) == s[Len(s)]

\* the positions of the events of one kind in the history
Events(kind) == {k \in 1..Len(log) : log[k].ev = kind}

\* the history is the one of the indexing pass (no line was read yet)
Indexing == question = NoLine

\* the process ended at the prompt, on the end of the input
EndOfInput == pc = "exited" /\ exit_by = "uncaught EOFError"

\* the run is at the prompt that follows the indexing pass, or ended there
PassDone == pc = "input" \/ EndOfInput

CountOf(st, id) == Cardinality({k \in 1..Len(st) : st[k].id = id})

\* the entries the current run appended to the collection
AddedNow == SubSeq(store, Len(store_at_start) + 1, Len(store))

\* C1: once the indexing pass of a run has finished, the collection holds
\* exactly one document per record id; and when an earlier run had finished
\* its pass too, the stored ids are the ones that earlier run left.
IdempotentIndexing ==
    IndexingFinished =>
        /\ \A id \in Ids(car_data) : CountOf(store, id) = 1
        /\ reconciled # NotYet => StoredIds(store) = reconciled[1]

\* a second pass has finished, after a lookup that raised, so that every
\* record was added again
IdempotentIndexingWitness ==
    /\ pc = "input"
    /\ Indexing
    /\ reconciled # NotYet
    /\ Len(car_data) >= 2
    /\ log[1].outcome = "error"
    /\ Cardinality(Events("add")) = Len(car_data)

\* C2: every entry the indexer appended is some record's id with that
\* record's original text as the document and the embedding of that
\* record's enriched text; the document is not the enriched text.
EnrichmentNonLeakage ==
    \A k \in 1..Len(AddedNow) :
        \E n \in 1..Len(car_data) :
            LET r == car_data[n]
                e == AddedNow[k]
            IN  /\ e.id = r.id
                /\ e.document = r.text
                /\ e.embedding = Emb(EnrichedText(r))
                /\ DOMAIN r # {"id", "text"} => e.document # EnrichedText(r)

EnrichmentNonLeakageWitness ==
    /\ AddedNow # <<>>
    /\ Last(AddedNow).id = "c2"
    /\ Last(AddedNow).embedding # Emb(Last(AddedNow).document)

\* C3: a connection failure of a question's embedding call ends the process
\* at once, with no answer and nothing after the diagnostic; a connection
\* failure of the generation call leaves the process running with the
\* diagnostic string as the answer, on its way to the next prompt; if the
\* process ends after it, it is at that prompt, on the end of the input.
FatalVsRecoverable ==
    /\ \A k \in Events("embed") :
         (~Indexing /\ log[k].outcome = "connection_error") =>
            /\ pc = "exited"
            /\ exit_by = "exit()"
            /\ k = Len(log) - 1
            /\ Last(log) = Printed(EmbedConnectionDiag)
            /\ Events("answer") = {}
            /\ Events("generate") = {}
    /\ \A k \in Events("generate") :
         log[k].outcome = "connection_error" =>
            /\ pc \in {"q_print", "input"} \/ EndOfInput
            /\ exit_by \in {"", "uncaught EOFError"}
            /\ answer = GenConnectionDiag
            /\ PassDone => Last(log) = [ev |-> "answer", text |-> GenConnectionDiag]

\* a generation failure was answered with the diagnostic, the next question
\* was read, and its embedding call failed and ended the process
FatalVsRecoverableWitness ==
    /\ pc = "exited"
    /\ answer = GenConnectionDiag
    /\ \E k \in Events("embed") : log[k].outcome = "connection_error"
    /\ ~Indexing

\* the ids of a sequence of items, without the ids already in `seen`
RECURSIVE FreshIds(_, _)
FreshIds(items, seen) ==
    IF items = <<>> THEN <<>>
    ELSE IF Head(items).id \in seen THEN FreshIds(Tail(items), seen)
    ELSE <<Head(items).id>> \o FreshIds(Tail(items), seen \cup {Head(items).id})

\* the process ended inside the indexing pass
IndexingAborted == pc = "exited" /\ Indexing /\ ~EndOfInput

\* C4: when the embedding call of the i-th new item fails the process ends;
\* the collection is then what the run found, followed by the first i-1 new
\* items (an id present is not added twice), and the calls made are the
\* embedding and the add of each of those i-1 items plus the failed call.
AbortKeepsPrefix ==
    IndexingAborted =>
        /\ exit_by = "exit()"
        /\ i \in 1..Len(new_items)
        /\ SubSeq(store, 1, Len(store_at_start)) = store_at_start
        /\ [k \in 1..Len(AddedNow) |-> AddedNow[k].id]
              = FreshIds(SubSeq(new_items, 1, i - 1), StoredIds(store_at_start))
        /\ \A k \in 1..Len(AddedNow) :
              \E n \in 1..(i - 1) : /\ AddedNow[k].id = new_items[n].id
                                    /\ AddedNow[k].document = new_items[n].text
        /\ Cardinality(Events("add")) = i - 1
        /\ Cardinality(Events("embed")) = i
        /\ \A n \in 1..(i - 1) :
              /\ log[2 * n + 1] = [ev |-> "embed", prompt |-> EnrichedText(new_items[n]),
                                   outcome |-> "ok"]
              /\ log[2 * n + 2].ev = "add"
              /\ log[2 * n + 2].id = new_items[n].id
        /\ log[2 * i + 1].ev = "embed"
        /\ log[2 * i + 1].prompt = EnrichedText(new_items[i])
        /\ log[2 * i + 1].outcome # "ok"

\* the second of three new items failed: one was added, one was left out
AbortKeepsPrefixWitness ==
    /\ IndexingAborted
    /\ Len(new_items) = 3
    /\ i = 2
    /\ Len(AddedNow) = 1

\* the clause the enrichment is to append for one attribute of a record:
\* none when the record lacks the attribute
SeatText(n) == CASE n = 2 -> "2" [] n = 5 -> "5" [] n = 12 -> "12"

Clause(r, key) ==
    IF key \notin DOMAIN r THEN ""
    ELSE CASE key = "make" -> " This car is made by " \o r[key] \o "."
           [] key = "type" -> " It is a type of " \o r[key] \o "."
           [] key = "seat" -> " It has " \o SeatText(r[key]) \o " seats."
           [] key = "fuel_type" -> " It uses " \o r[key] \o " fuel."

\* C5: the enriched text is the original text followed by the clause of
\* each present attribute, in the order make, type, seat, fuel_type, and by
\* nothing for an absent one: four clauses with all present, the text itself
\* with none.
EnrichmentComposition ==
    pc = "enriched" =>
        LET r == new_items[i]
            present == DOMAIN r \cap OptionalKeys
        IN  /\ enriched_text = r.text \o Clause(r, "make") \o Clause(r, "type")
                                  \o Clause(r, "seat") \o Clause(r, "fuel_type")
            /\ present = {} => enriched_text = r.text
            /\ present = OptionalKeys =>
                  enriched_text = r.text \o " This car is made by Acme."
                                    \o " It is a type of SUV."
                                    \o " It has " \o SeatText(r.seat) \o " seats."
                                    \o " It uses diesel fuel."

\* a record with all four attributes and a two-digit seat count was enriched
EnrichmentCompositionWitness ==
    /\ pc = "enriched"
    /\ DOMAIN new_items[i] = {"id", "text"} \cup OptionalKeys
    /\ new_items[i].seat = 12
    /\ enriched_text # new_items[i].text

\* the lookup of the current run raised
LookupRaised == Indexing /\ log # <<>> /\ log[1].ev = "get" /\ log[1].outcome = "error"

\* C6: a lookup that raises does not end the process: the indexer goes on
\* with no existing id, so that every record is a new item; the process ends
\* in the pass only on a failed embedding call, and a pass that finishes has
\* embedded and added every record, in order, and left every id stored.
LookupErrorRecovered ==
    LookupRaised =>
        /\ existing_ids = {}
        /\ new_items = car_data
        /\ IndexingAborted =>
              /\ exit_by = "exit()"
              /\ \E k \in Events("embed") : log[k].outcome # "ok"
        /\ PassDone =>
              /\ Ids(car_data) \subseteq StoredIds(store)
              /\ Cardinality(Events("embed")) = Len(car_data)
              /\ Cardinality(Events("add")) = Len(car_data)
              /\ \A n \in 1..Len(car_data) :
                    /\ log[2 * n + 1] = [ev |-> "embed",
                                         prompt |-> EnrichedText(car_data[n]),
                                         outcome |-> "ok"]
                    /\ log[2 * n + 2].ev = "add"
                    /\ log[2 * n + 2].id = car_data[n].id
                    /\ log[2 * n + 2].document = car_data[n].text

\* the lookup raised on a collection that held a record's id, and the pass
\* finished
LookupErrorRecoveredWitness ==
    /\ LookupRaised
    /\ pc = "input"
    /\ Len(car_data) = 3
    /\ StoredIds(store_at_start) \cap Ids(car_data) # {}

\* C7: a reply without the expected field is handled as a connection failure
\* is at the same stage, with a diagnostic of its own: without `embedding`
\* the process ends (in the indexing pass and for a question alike), without
\* `response` the process goes on with a diagnostic string as the answer.
MalformedLikeConnection ==
    /\ \A k \in Events("embed") :
         log[k].outcome \in {"missing_field", "connection_error"} =>
            /\ pc = "exited"
            /\ exit_by = "exit()"
            /\ k = Len(log) - 1
            /\ Last(log).ev = "print"
            /\ (log[k].outcome = "missing_field")
                  <=> (Last(log).text = EmbedErrorDiag(MissingEmbeddingError(MalformedReply)))
            /\ (log[k].outcome = "connection_error")
                  <=> (Last(log).text = EmbedConnectionDiag)
    /\ \A k \in Events("generate") :
         log[k].outcome \in {"missing_field", "connection_error"} =>
            /\ pc \in {"q_print", "input"} \/ EndOfInput
            /\ exit_by \in {"", "uncaught EOFError"}
            /\ (log[k].outcome = "missing_field")
                  <=> (answer = GenErrorDiag(MissingResponseError))
            /\ (log[k].outcome = "connection_error")
                  <=> (answer = GenConnectionDiag)

\* a reply without `response` was answered with its diagnostic, and the next
\* question's embedding reply lacked `embedding`
MalformedLikeConnectionWitness ==
    /\ pc = "exited"
    /\ ~Indexing
    /\ answer = GenErrorDiag(MissingResponseError)
    /\ \E k \in Events("embed") : log[k].outcome = "missing_field"

\* the first n documents, one per line
RECURSIVE Context(_, _)
Context(docs, n) ==
    IF n = 0 THEN ""
    ELSE IF n = 1 THEN docs[1]
    ELSE Context(docs, n - 1) \o "\n" \o docs[n]

ExpectedPrompt(docs, line) ==
    "Use the following context to answer the question." \o "\n" \o "\n"
        \o "Context:" \o "\n" \o Context(docs, Len(docs)) \o "\n" \o "\n"
        \o "Question: " \o Str(line) \o "\n" \o "Answer:"

\* C8: rag_query asks the collection for 3 documents and gets min(3, count)
\* of them; the prompt built, and the prompt sent to the generation service,
\* is the instruction, the retrieved documents one per line in the order the
\* collection ranked them, the question as typed and the cue "Answer:".
RetrievalAndPrompt ==
    \A k \in Events("query") :
        LET q == log[k]
        IN  /\ q.n_results = 3
            /\ Len(q.documents) <= 3
            /\ Len(q.documents) = Min(3, Len(store))
            /\ Len(q.ids) = Len(q.documents)
            /\ \A a, b \in 1..Len(q.ids) : q.ids[a] = q.ids[b] => a = b
            /\ \A a \in 1..Len(q.ids) :
                  \E n \in 1..Len(store) : /\ store[n].id = q.ids[a]
                                           /\ store[n].document = q.documents[a]
            /\ pc = "q_generate" =>
                  /\ top_docs = q.documents
                  /\ top_ids = q.ids
                  /\ prompt = ExpectedPrompt(q.documents, question)
            /\ \A g \in Events("generate") :
                  /\ g > k
                  /\ log[g].prompt = ExpectedPrompt(q.documents, question)
                  /\ log[g].stream = FALSE

\* three of four stored documents were retrieved, the newest ranked first,
\* and the prompt was sent
RetrievalAndPromptWitness ==
    /\ pc = "q_print"
    /\ Len(store) = 4
    /\ \E k \in Events("query") : /\ Len(log[k].ids) = 3
                                  /\ log[k].ids[1] = store[4].id
                                  /\ log[k].ids[3] = store[1].id
    /\ question = <<"S", "e", "a", "t", "s", "?">>

\* the lines that are "exit" or "quit" in some letter case, among Questions
SentinelLines ==
    { <<"e", "x", "i", "t">>, <<"E", "X", "I", "T">>, <<"Q", "u", "i", "t">>,
      <<"q", "u", "i", "t">> }

\* C9: a line that is "exit" or "quit" in any letter case ends the session
\* without a call of rag_query; any other line (the empty one, a padded
\* sentinel) is passed to rag_query, and the session is back at the prompt
\* only after the answer was printed.
LoopDispatch ==
    ~Indexing =>
        /\ log[1] = [ev |-> "input", line |-> question]
        /\ question \in SentinelLines =>
              /\ pc = "exited"
              /\ exit_by = "break"
              /\ log = <<[ev |-> "input", line |-> question], Printed("Goodbye!")>>
        /\ question \notin SentinelLines =>
              /\ exit_by # "break"
              /\ log[2] = [ev |-> "rag_query", line |-> question]
              /\ Events("embed") # {} => log[3].prompt = Str(question)
              /\ pc = "input" =>
                    /\ Events("generate") # {}
                    /\ Last(log) = [ev |-> "answer", text |-> answer]

\* the padded sentinel was answered and the session is back at the prompt
LoopDispatchWitness ==
    /\ pc = "input"
    /\ question = <<" ", "e", "x", "i", "t", " ">>
    /\ Events("answer") # {}

\* a question is in flight: it was passed to rag_query, its answer is not
\* printed yet
InFlight == ~Indexing /\ Events("rag_query") # {} /\ Events("answer") = {}

\* C10 as stated: the session never ends while a question is in flight.
NoExitInFlight == ~(pc = "exited" /\ InFlight)

\* C10, amended: the session ends either between questions, on a sentinel
\* or on the end of the input after a printed answer, or by the exit() of
\* the failed embedding call of the question in flight, before anything
\* was retrieved; past that call the cycle is never cut.
ExitOnlyBetweenOrByEmbedding ==
    (pc = "exited" /\ ~Indexing) =>
        \/ /\ exit_by = "break"
           /\ question \in SentinelLines
           /\ ~InFlight
        \/ /\ exit_by = "uncaught EOFError"
           /\ ~InFlight
           /\ Last(log) = [ev |-> "answer", text |-> answer]
        \/ /\ exit_by = "exit()"
           /\ InFlight
           /\ Len(log) = 4
           /\ log[3].ev = "embed"
           /\ log[3].outcome # "ok"
           /\ log[4].ev = "print"
           /\ Events("query") = {}
           /\ Events("generate") = {}

\* one question was answered, and the embedding call of the next one failed
ExitOnlyBetweenOrByEmbeddingWitness ==
    /\ pc = "exited"
    /\ InFlight
    /\ answer # None
    /\ exit_by = "exit()"

\* the events that are calls of the services or of the collection
Calls == Events("get") \cup Events("embed") \cup Events("add")
            \cup Events("query") \cup Events("generate")

\* the diagnostic of each kind of failure, by stage
EmbedDiagOf(outcome) ==
    CASE outcome = "connection_error" ->
           "Connection error to Ollama. Please ensure Ollama is running.\n   You can check by opening Terminal/Command Prompt and typing: ollama run llama3.2"
      [] outcome = "missing_field" ->
           "Error getting embedding: Embedding API error: 'embedding' key missing in response: {}"
      [] outcome = "http_error" ->
           "Error getting embedding: 500 Server Error: Internal Server Error for url: http://localhost:11434/api/embeddings"

GenDiagOf(outcome) ==
    CASE outcome = "connection_error" ->
           "Connection error to Ollama when generating answer. Please ensure Ollama is running."
      [] outcome = "missing_field" -> "Error generating answer: 'response'"
      [] outcome = "http_error" ->
           "Error generating answer: 500 Server Error: Internal Server Error for url: http://localhost:11434/api/generate"

Failures == ServiceOutcomes \ {"ok"}

\* C11: no call is issued again after it failed.  In the indexing pass the
\* lookup is called once and the n-th embedding call is the one of the n-th
\* new item; a question makes at most one embedding, one query and one
\* generation call.  A failed embedding call is followed by its diagnostic
\* and nothing else, a failed generation call by the one answer that is its
\* diagnostic, and the diagnostics of different kinds of failure differ.
NoRetries ==
    /\ Indexing =>
         /\ Cardinality(Events("get")) <= 1
         /\ Cardinality(Events("embed")) <= Len(new_items)
         /\ \A k \in Events("embed") :
               LET n == Cardinality({j \in Events("embed") : j <= k})
               IN  log[k].prompt = EnrichedText(new_items[n])
    /\ ~Indexing =>
         /\ Cardinality(Events("embed")) <= 1
         /\ Cardinality(Events("query")) <= 1
         /\ Cardinality(Events("generate")) <= 1
         /\ Cardinality(Events("answer")) <= 1
    /\ \A k \in Events("embed") :
         log[k].outcome # "ok" =>
            /\ Len(log) = k + 1
            /\ log[k + 1] = Printed(EmbedDiagOf(log[k].outcome))
            /\ \A o \in Failures \ {log[k].outcome} :
                  log[k + 1].text # EmbedDiagOf(o)
    /\ \A k \in Events("generate") :
         log[k].outcome # "ok" =>
            /\ \A j \in Calls : j <= k
            /\ answer = GenDiagOf(log[k].outcome)
            /\ \A o \in Failures \ {log[k].outcome} : answer # GenDiagOf(o)
            /\ PassDone => /\ Len(log) = k + 1
                           /\ log[k + 1] = [ev |-> "answer", text |-> answer]

\* a generation call that met an HTTP error was answered with its
\* diagnostic, once, and the session is back at the prompt
NoRetriesWitness ==
    /\ pc = "input"
    /\ ~Indexing
    /\ \E k \in Events("generate") : log[k].outcome = "http_error"
    /\ Cardinality(Events("answer")) = 1
    /\ Cardinality(Events("embed")) = 1

\* every entry the collection holds is still there, unchanged, after the step
EntriesKept ==
    /\ Len(store') >= Len(store)
    /\ SubSeq(store', 1, Len(store)) = store

\* the run found the item's id stored with a document other than its text
StoredOtherwise(item) ==
    \E k \in 1..Len(store_at_start) :
        /\ store_at_start[k].id = item.id
        /\ store_at_start[k].document # item.text

\* the step is the embedding call of the indexing loop
EmbedsItem == pc = "embed" /\ pc' # "embed"

\* the step is the add of the indexing loop
AddsItem == pc = "add" /\ pc' # "add"

\* C12 as stated: no step changes or removes a stored entry, and no record
\* that the run found stored with another text is embedded.
StoredNeverReembedded ==
    [][/\ EntriesKept
       /\ EmbedsItem => ~StoredOtherwise(new_items[i])]_vars

\* C12, amended: no step changes or removes a stored entry; a record whose
\* id the lookup reported is not embedded; and the add of an id the
\* collection holds (after a lookup that raised) leaves the collection as
\* it was.
StoredNeverChanged ==
    [][/\ EntriesKept
       /\ EmbedsItem => new_items[i].id \notin existing_ids
       /\ (AddsItem /\ new_items[i].id \in StoredIds(store)) => store' = store]_vars

\* the lookup raised, a record stored with another text was embedded and
\* added again, and the collection is what the run found
StoredNeverChangedWitness ==
    /\ pc = "input"
    /\ LookupRaised
    /\ \E n \in 1..Len(car_data) : StoredOtherwise(car_data[n])
    /\ Cardinality(Events("add")) = Len(car_data)
    /\ store = store_at_start

\* the ids the lookup of the current run reported as existing
Reported ==
    IF log[1].outcome = "ok" THEN StoredIds(store_at_start) \cap Ids(car_data) ELSE {}

NotReported(r) == r.id \notin Reported

\* the records the store did not report, in input order
Unreported == SelectSeq(car_data, NotReported)

\* C13: the calls of the indexing pass are, for the records the store did
\* not report and in their input order, the embedding call of a record
\* and then its add, before the next record's embedding call; a finished
\* pass has done so for each of them and for no other record; with none of
\* them the pass makes no embedding call and no add and says that every
\* document is already there.
IndexesExactlyTheNew ==
    (Indexing /\ log # <<>>) =>
        LET adds == Cardinality(Events("add"))
            embeds == Cardinality(Events("embed"))
        IN  /\ log[1].ev = "get"
            /\ new_items = Unreported
            /\ adds <= Len(Unreported)
            /\ embeds \in {adds, adds + 1}
            /\ \A m \in 1..embeds :
                  /\ log[2 * m + 1].ev = "embed"
                  /\ log[2 * m + 1].prompt = EnrichedText(Unreported[m])
            /\ \A m \in 1..adds :
                  /\ log[2 * m + 1].outcome = "ok"
                  /\ log[2 * m + 2].ev = "add"
                  /\ log[2 * m + 2].id = Unreported[m].id
                  /\ log[2 * m + 2].document = Unreported[m].text
            /\ PassDone => /\ adds = Len(Unreported)
                           /\ embeds = adds
            /\ Unreported = <<>> =>
                  /\ PassDone
                  /\ log = <<log[1], Printed("All documents already in ChromaDB."), Banner>>
                  /\ store = store_at_start

\* of three records one was reported as existing, and the pass has
\* embedded and added the two others
IndexesExactlyTheNewWitness ==
    /\ pc = "input"
    /\ Indexing
    /\ log[1].outcome = "ok"
    /\ Len(car_data) = 3
    /\ Len(new_items) = 2
    /\ Cardinality(Events("add")) = 2

RankText(m) == CASE m = 1 -> "1" [] m = 2 -> "2" [] m = 3 -> "3"

\* what is printed for the m-th source of a query
SourceText(q, m) ==
    "Source " \o RankText(m) \o " (ID: " \o q.ids[m] \o "): \"" \o q.documents[m] \o "\""

\* C14: in a cycle the query of the collection is followed at once by the
\* trace: the heading, one entry per retrieved document with its id and its
\* text in ranked order, and the closing line; the generation call comes
\* only after it, whatever its outcome.
TraceBeforeGeneration ==
    /\ \A k \in Events("query") :
         LET q == log[k]
             n == Len(q.ids)
         IN  /\ Len(log) >= k + n + 2
             /\ log[k + 1] =
                   Printed("Retrieving relevant information to answer your question...")
             /\ \A m \in 1..n : log[k + 1 + m] = Printed(SourceText(q, m))
             /\ log[k + n + 2] =
                   Printed("These seem to be the most relevant pieces of information to answer your question.")
             /\ \A g \in Events("generate") : g = k + n + 3
    /\ Events("generate") # {} => Events("query") # {}

\* three documents were retrieved and shown, and the generation call failed
TraceBeforeGenerationWitness ==
    /\ pc = "q_print"
    /\ \E g \in Events("generate") : log[g].outcome = "connection_error"
    /\ \E k \in Events("query") : /\ Len(log[k].ids) = 3
                                  /\ log[k].ids[1] = store[2].id
                                  /\ log[k + 2].ev = "print"

DistinctIds(items) ==
    \A a, b \in 1..Len(items) : items[a].id = items[b].id => a = b

\* the entry the collection holds for an id
EntryOf(id) == store[CHOOSE k \in 1..Len(store) : store[k].id = id]

\* the entries a collection can hold before the first run
HeldBefore == UNION {{st[k] : k \in 1..Len(st)} : st \in InitialStores}

NotStoredAtStart(r) == r.id \notin StoredIds(store_at_start)

\* the records the current run did not find stored, in input order
Missing == SelectSeq(car_data, NotStoredAtStart)

\* the indexing pass of a run in which no call failed has finished, for
\* records with pairwise distinct ids
CleanPassDone ==
    /\ pc = "input"
    /\ Indexing
    /\ log[1].outcome = "ok"
    /\ \A k \in Events("embed") : log[k].outcome = "ok"
    /\ DistinctIds(car_data)

\* no run before the current one finished its pass, and the runs before it
\* have added entries: a run was aborted after it had persisted new items
AfterAbort == reconciled = NotYet /\ store_at_start \notin InitialStores

\* C15 as stated: a run without failure that follows an aborted one ends
\* with one document per record id, each the record's original text, having
\* embedded and added exactly the records not persisted before.
ResumeGivesOriginalTexts ==
    (CleanPassDone /\ AfterAbort) =>
        /\ new_items = Missing
        /\ Cardinality(Events("embed")) = Len(Missing)
        /\ Cardinality(Events("add")) = Len(Missing)
        /\ \A n \in 1..Len(car_data) :
              /\ CountOf(store, car_data[n].id) = 1
              /\ EntryOf(car_data[n].id).document = car_data[n].text

\* C15, amended: a run without failure embeds and adds exactly the records
\* whose id it did not find stored, and ends with one document per record
\* id; the document is the record's original text unless the collection
\* held the id with another text before the first run, which it keeps.
ResumeCompletesTheIndex ==
    CleanPassDone =>
        /\ new_items = Missing
        /\ Cardinality(Events("embed")) = Len(Missing)
        /\ Cardinality(Events("add")) = Len(Missing)
        /\ \A m \in 1..Len(Missing) :
              /\ log[2 * m + 1].prompt = EnrichedText(Missing[m])
              /\ log[2 * m + 2].id = Missing[m].id
              /\ AddedNow[m].id = Missing[m].id
              /\ AddedNow[m].document = Missing[m].text
        /\ Len(AddedNow) = Len(Missing)
        /\ \A n \in 1..Len(car_data) :
              /\ CountOf(store, car_data[n].id) = 1
              /\ \/ EntryOf(car_data[n].id).document = car_data[n].text
                 \/ EntryOf(car_data[n].id) \in HeldBefore

\* the first of two records was persisted by a run that was aborted, and
\* the current run has embedded and added the second
ResumeCompletesTheIndexWitness ==
    /\ CleanPassDone
    /\ AfterAbort
    /\ Len(car_data) = 2
    /\ Len(store_at_start) = 1
    /\ store_at_start[1].id = car_data[1].id
    /\ new_items = <<car_data[2]>>
    /\ Len(store) = 2

\* C16: with pairwise distinct record ids and a lookup that succeeded, no
\* add is issued for an id the collection holds and no id is added twice:
\* every add of the run appended an entry; and a finished pass leaves every
\* record id stored.
AddsOnlyAbsentIds ==
    /\ (Indexing /\ log # <<>> /\ log[1].outcome = "ok" /\ DistinctIds(car_data)) =>
         /\ \A a \in Events("add") :
               /\ log[a].id \notin StoredIds(store_at_start)
               /\ \A b \in Events("add") : log[a].id = log[b].id => a = b
         /\ Len(AddedNow) = Cardinality(Events("add"))
         /\ \A k \in 1..Len(AddedNow) : CountOf(store, AddedNow[k].id) = 1
    /\ (Indexing /\ pc = "input") => Ids(car_data) \subseteq StoredIds(store)

\* one of two records was reported as existing and the other was added
AddsOnlyAbsentIdsWitness ==
    /\ pc = "input"
    /\ Indexing
    /\ log[1].outcome = "ok"
    /\ DistinctIds(car_data)
    /\ Len(car_data) = 2
    /\ Cardinality(existing_ids) = 1
    /\ Cardinality(Events("add")) = 1

\* the step is one of rag_query, or the print of its answer
QueryStep == pc \in {"q_embed", "q_query", "q_generate", "q_print"}

\* C17: no step of a question's cycle changes the collection, whether the
\* cycle ends with an answer, with a diagnostic or with the exit of a
\* failed embedding call.
QueryReadOnly == [][QueryStep => store' = store]_vars

\* after an answered question the embedding call of the next one ended the
\* process, and the collection of four documents is the one of the
\* indexing pass
QueryReadOnlyWitness ==
    /\ pc = "exited"
    /\ exit_by = "exit()"
    /\ ~Indexing
    /\ answer = "5 seats."
    /\ Len(store) = 4
    /\ AddedNow # <<>>

\* C18: a line is read only after the indexing pass of the run has
\* finished: from the first prompt on every new item was added and every
\* record id is stored; a run that ends inside the pass has read no line
\* and given no answer.
QuestionsAfterIndexing ==
    /\ (pc \in {"input", "q_embed", "q_query", "q_generate", "q_print"} \/ ~Indexing) =>
         /\ new_items # <<>> => i = Len(new_items)
         /\ \A n \in 1..Len(new_items) : new_items[n].id \in StoredIds(store)
         /\ \A n \in 1..Len(car_data) : car_data[n].id \in StoredIds(store)
    /\ \A k \in Events("query") :
         \A n \in 1..Len(car_data) : car_data[n].id \in StoredIds(store)
    /\ (pc = "exited" /\ log[1].ev = "get") =>
         /\ question = NoLine
         /\ answer = None
         /\ Events("input") = {}

\* a query was made in a run that had added three new items
QuestionsAfterIndexingWitness ==
    /\ pc = "q_generate"
    /\ Len(new_items) = 3
    /\ Events("query") # {}
    /\ Len(AddedNow) = 2

====
